---- MODULE Spec2Model ----
(***************************************************************************)
(* The zustand game store of src/src/store/gameStore.ts as a state machine. *)
(* One variable per field of the store, one action per store action.  Every *)
(* store action is synchronous: it reads the state with get() and commits   *)
(* with one set(), so each is one atomic step.                              *)
(***************************************************************************)
EXTENDS Integers, Sequences, FiniteSets, TLC

VARIABLES currentUser, isAuthenticated, currentRoom, availableRooms,
          currentQuestion, playerAnswers, gameSettings, isLoading, error,
          showResults,
          calls     \* the number of store calls made so far

\* the fields of the store
store == <<currentUser, isAuthenticated, currentRoom, availableRooms,
           currentQuestion, playerAnswers, gameSettings, isLoading, error,
           showResults>>

vars == <<store, calls>>

(***************************************************************************)
(* Bounds of the model.                                                     *)
(***************************************************************************)
\* Spec explores the runs of at most this many store calls
MaxCalls == 6
\* createRoom is explored while the lobby holds fewer rooms than this
MaxRooms == 2
\* SpecScore and SpecAdvance explore submitAnswer up to this many answers
MaxAnswers == 1
\* SpecScore calls submitAnswer with every timeSpent in 0..MaxTimeSpent
MaxTimeSpent == 32
\* SpecScore calls submitAnswer with every answerIndex in 0..MaxAnswerIndex
MaxAnswerIndex == 2

(***************************************************************************)
(* JavaScript values.  null and undefined are two distinct absent values;   *)
(* both are falsy, every object is truthy.                                  *)
(***************************************************************************)
null == [tag |-> "null"]
undefined == [tag |-> "undefined"]
Falsy(v) == v = null \/ v = undefined

\* Math.max of two integers
Max(a, b) == IF a >= b THEN a ELSE b

Min(a, b) == IF a <= b THEN a ELSE b

\* Array.prototype.slice(0, n) on a sequence: n < 0 counts from the end
Slice0(s, n) ==
    LET end == IF n < 0 THEN Max(Len(s) + n, 0) ELSE Min(n, Len(s))
    IN  SubSeq(s, 1, end)

\* Array.prototype.includes
Includes(s, x) == \E i \in 1..Len(s) : s[i] = x

\* Array.prototype.sort with a random comparator: the array in some order
Shuffles(s) ==
    { [i \in 1..Len(s) |-> s[p[i]]] :
        p \in { f \in [1..Len(s) -> 1..Len(s)] :
                  \A i, j \in 1..Len(s) : i # j => f[i] # f[j] } }

(***************************************************************************)
(* The values the actions are called with.                                  *)
(***************************************************************************)
Users == { [id |-> "u1", name |-> "Ana"], [id |-> "u2", name |-> "Bia"] }

\* the outcomes of Math.random().toString(36).substr(2, 9): the store does
\* not compare a new identifier with the identifiers already in the lobby
RoomIds == { "r1", "r2" }

RoomNames == { "sala" }

MaxPlayersArgs == { 0, 1, 2 }

IsPrivateArgs == { FALSE }

AnswerIndexArgs == { 0, 1 }

TimeSpentArgs == { 10, 30 }

ErrorArgs == { null, [message |-> "falha"] }

LoadingArgs == BOOLEAN

defaultCategories ==
    << "recycling", "biodiversity", "energy", "climate-change",
       "sustainable-consumption", "pollution", "conservation" >>

defaultGameSettings ==
    [ questionsPerGame |-> 10,
      timePerQuestion  |-> 30,
      difficulty       |-> "mixed",
      categories       |-> defaultCategories ]

SettingsFields == DOMAIN defaultGameSettings

\* Partial<GameSettings>: the records setGameSettings is called with, each
\* over a subset of the fields
PartialSettings ==
    { [ questionsPerGame |-> 2 ],
      [ timePerQuestion |-> 60 ],
      [ difficulty |-> "easy" ],
      [ difficulty |-> "easy", categories |-> << "energy" >> ],
      defaultGameSettings }

\* the question catalogue of ../data/questions, which the store only reads
mockQuestions ==
    << [ id |-> "q1", correctAnswer |-> 1, category |-> "recycling",
         difficulty |-> "easy", points |-> 10 ],
       [ id |-> "q2", correctAnswer |-> 0, category |-> "energy",
         difficulty |-> "hard", points |-> 20 ] >>

(***************************************************************************)
(* Helpers of the actions.                                                  *)
(***************************************************************************)
\* mutant: the new score mapping holds the one entry only
SetScore_DropsOthers(scores, id, v) == (id :> v)

\* { ...scores, [id]: v }
SetScore(scores, id, v) ==
    [ k \in DOMAIN scores \cup {id} |-> IF k = id THEN v ELSE scores[k] ]

\* scores[id] || 0
ScoreOr0(scores, id) ==
    IF id \in DOMAIN scores /\ scores[id] # 0 THEN scores[id] ELSE 0

\* mutant: the category filter is left out
FilteredQuestions_NoCategory(settings) ==
    IF settings.difficulty # "mixed"
    THEN SelectSeq(mockQuestions, LAMBDA q : q.difficulty = settings.difficulty)
    ELSE mockQuestions

\* mutant: the difficulty filter is left out
FilteredQuestions_NoDifficulty(settings) ==
    SelectSeq(mockQuestions,
              LAMBDA q : Includes(settings.categories, q.category))

\* the questions startGame and nextQuestion filter out of the catalogue
FilteredQuestions(settings) ==
    LET byDifficulty ==
            IF settings.difficulty # "mixed"
            THEN SelectSeq(mockQuestions,
                           LAMBDA q : q.difficulty = settings.difficulty)
            ELSE mockQuestions
    IN  SelectSeq(byDifficulty,
                  LAMBDA q : Includes(settings.categories, q.category))

\* availableRooms.find(r => r.id === roomId): the first match, or undefined
FindRoom(rooms, roomId) ==
    IF \E i \in 1..Len(rooms) : rooms[i].id = roomId
    THEN rooms[CHOOSE i \in 1..Len(rooms) :
                  /\ rooms[i].id = roomId
                  /\ \A j \in 1..(i - 1) : rooms[j].id # roomId]
    ELSE undefined

\* mutant: the capacity test off by one
RoomIsFull_OffByOne(room) == Len(room.players) > room.maxPlayers

\* room.players.length >= room.maxPlayers
RoomIsFull(room) == Len(room.players) >= room.maxPlayers

\* mutant: the updated room is moved to the end of the lobby
ReplaceRoom_MovesLast(rooms, roomId, updatedRoom) ==
    Append(SelectSeq(rooms, LAMBDA r : r.id # roomId), updatedRoom)

\* mutant: the updated room replaces every lobby entry
ReplaceRoom_All(rooms, roomId, updatedRoom) ==
    [ i \in 1..Len(rooms) |-> updatedRoom ]

\* availableRooms.map(r => r.id === roomId ? updatedRoom : r)
ReplaceRoom(rooms, roomId, updatedRoom) ==
    [ i \in 1..Len(rooms) |->
        IF rooms[i].id = roomId THEN updatedRoom ELSE rooms[i] ]

\* mutant: the game ends one question late
GameOver_Late(nextIndex, settings) == nextIndex > settings.questionsPerGame

\* nextIndex >= gameSettings.questionsPerGame
GameOver(nextIndex, settings) == nextIndex >= settings.questionsPerGame

\* mutant: the bonus is not floored at 0
TimeBonus_NoFloor(timeSpent) == (30 - timeSpent) * 2

\* the time bonus of submitAnswer
TimeBonus(timeSpent) == Max(0, (30 - timeSpent) * 2)

\* the points submitAnswer awards
AwardedPoints(question, answerIndex, timeSpent) ==
    LET isCorrect == answerIndex = question.correctAnswer
    IN  IF isCorrect THEN question.points + TimeBonus(timeSpent) ELSE 0

(***************************************************************************)
(* The store.                                                               *)
(***************************************************************************)
Init ==
    /\ currentUser = null
    /\ isAuthenticated = FALSE
    /\ currentRoom = null
    /\ availableRooms = <<>>
    /\ currentQuestion = null
    /\ playerAnswers = <<>>
    /\ gameSettings = defaultGameSettings
    /\ isLoading = FALSE
    /\ error = null
    /\ showResults = FALSE
    /\ calls = 0

\* mutant: an early return reports through the error field
NoOp_ReportsError ==
    /\ error' = [message |-> "prerequisite missing"]
    /\ UNCHANGED <<currentUser, isAuthenticated, currentRoom, availableRooms,
                   currentQuestion, playerAnswers, gameSettings, isLoading,
                   showResults>>

\* an early return: the action ends before any set()
NoOp == UNCHANGED store

setUser(user) ==
    /\ currentUser' = user
    /\ isAuthenticated' = TRUE
    /\ UNCHANGED <<currentRoom, availableRooms, currentQuestion, playerAnswers,
                   gameSettings, isLoading, error, showResults>>

\* mutant: the logout also clears the error field
logout_ClearsError ==
    /\ currentUser' = null
    /\ isAuthenticated' = FALSE
    /\ currentRoom' = null
    /\ currentQuestion' = null
    /\ playerAnswers' = <<>>
    /\ showResults' = FALSE
    /\ error' = null
    /\ UNCHANGED <<availableRooms, gameSettings, isLoading>>

\* mutant: the results flag survives the logout
logout_KeepsResults ==
    /\ currentUser' = null
    /\ isAuthenticated' = FALSE
    /\ currentRoom' = null
    /\ currentQuestion' = null
    /\ playerAnswers' = <<>>
    /\ UNCHANGED <<availableRooms, gameSettings, isLoading, error, showResults>>

logout ==
    /\ currentUser' = null
    /\ isAuthenticated' = FALSE
    /\ currentRoom' = null
    /\ currentQuestion' = null
    /\ playerAnswers' = <<>>
    /\ showResults' = FALSE
    /\ UNCHANGED <<availableRooms, gameSettings, isLoading, error>>

\* newId is the identifier Math.random() yields
createRoom(roomName, maxPlayers, isPrivate, newId) ==
    IF currentUser = null
    THEN NoOp
    ELSE LET newRoom ==
                 [ id            |-> newId,
                   name          |-> roomName,
                   players       |-> <<currentUser>>,
                   maxPlayers    |-> maxPlayers,
                   isPrivate     |-> isPrivate,
                   gameState     |-> "waiting",
                   questionIndex |-> 0,
                   timeRemaining |-> 0,
                   scores        |-> (currentUser.id :> 0) ]
         IN  /\ currentRoom' = newRoom
             /\ availableRooms' = Append(availableRooms, newRoom)
             /\ UNCHANGED <<currentUser, isAuthenticated, currentQuestion,
                            playerAnswers, gameSettings, isLoading, error,
                            showResults>>

joinRoom(roomId) ==
    LET room == FindRoom(availableRooms, roomId)
    IN  IF currentUser = null
        THEN NoOp
        ELSE IF room = undefined \/ RoomIsFull(room)
        THEN NoOp
        ELSE LET updatedRoom ==
                     [ room EXCEPT
                         !.players = Append(room.players, currentUser),
                         !.scores  = SetScore(room.scores, currentUser.id, 0) ]
             IN  /\ currentRoom' = updatedRoom
                 /\ availableRooms' =
                        ReplaceRoom(availableRooms, roomId, updatedRoom)
                 /\ UNCHANGED <<currentUser, isAuthenticated, currentQuestion,
                                playerAnswers, gameSettings, isLoading, error,
                                showResults>>

\* mutant: the answer log survives the leave
leaveRoom_KeepsAnswers ==
    /\ currentRoom' = null
    /\ currentQuestion' = null
    /\ showResults' = FALSE
    /\ UNCHANGED <<currentUser, isAuthenticated, availableRooms, playerAnswers,
                   gameSettings, isLoading, error>>

leaveRoom ==
    /\ currentRoom' = null
    /\ currentQuestion' = null
    /\ playerAnswers' = <<>>
    /\ showResults' = FALSE
    /\ UNCHANGED <<currentUser, isAuthenticated, availableRooms, gameSettings,
                   isLoading, error>>

\* shuffled is the order the random sort leaves the filtered questions in
startGame ==
    IF currentRoom = null
    THEN NoOp
    ELSE \E shuffled \in Shuffles(FilteredQuestions(gameSettings)) :
           LET selectedQuestions == Slice0(shuffled, gameSettings.questionsPerGame)
               updatedRoom ==
                   [ currentRoom EXCEPT
                       !.gameState     = "playing",
                       !.questionIndex = 0,
                       !.timeRemaining = gameSettings.timePerQuestion ]
           IN  /\ currentRoom' = updatedRoom
               /\ currentQuestion' =
                      IF Len(selectedQuestions) > 0
                      THEN selectedQuestions[1] ELSE null
               /\ playerAnswers' = <<>>
               /\ UNCHANGED <<currentUser, isAuthenticated, availableRooms,
                              gameSettings, isLoading, error, showResults>>

submitAnswer(answerIndex, timeSpent) ==
    IF currentUser = null \/ Falsy(currentQuestion) \/ currentRoom = null
    THEN NoOp
    ELSE LET isCorrect == answerIndex = currentQuestion.correctAnswer
             points == AwardedPoints(currentQuestion, answerIndex, timeSpent)
             answer ==
                 [ playerId    |-> currentUser.id,
                   answerIndex |-> answerIndex,
                   timeSpent   |-> timeSpent,
                   isCorrect   |-> isCorrect,
                   points      |-> points ]
             updatedScores ==
                 SetScore(currentRoom.scores, currentUser.id,
                          ScoreOr0(currentRoom.scores, currentUser.id) + points)
         IN  /\ playerAnswers' = Append(playerAnswers, answer)
             /\ currentRoom' = [ currentRoom EXCEPT !.scores = updatedScores ]
             /\ showResults' = TRUE
             /\ UNCHANGED <<currentUser, isAuthenticated, availableRooms,
                            currentQuestion, gameSettings, isLoading, error>>

endGame ==
    IF currentRoom = null
    THEN NoOp
    ELSE /\ currentRoom' = [ currentRoom EXCEPT !.gameState = "finished" ]
         /\ currentQuestion' = null
         /\ showResults' = TRUE
         /\ UNCHANGED <<currentUser, isAuthenticated, availableRooms,
                        playerAnswers, gameSettings, isLoading, error>>

nextQuestion ==
    IF currentRoom = null
    THEN NoOp
    ELSE LET nextIndex == currentRoom.questionIndex + 1
         IN  IF GameOver(nextIndex, gameSettings)
             THEN endGame
             ELSE \E shuffled \in Shuffles(FilteredQuestions(gameSettings)) :
                    /\ currentRoom' =
                           [ currentRoom EXCEPT
                               !.questionIndex = nextIndex,
                               !.timeRemaining = gameSettings.timePerQuestion ]
                    /\ currentQuestion' =
                           IF Len(shuffled) = 0
                           THEN undefined
                           ELSE shuffled[(nextIndex % Len(shuffled)) + 1]
                    /\ showResults' = FALSE
                    /\ UNCHANGED <<currentUser, isAuthenticated, availableRooms,
                                   playerAnswers, gameSettings, isLoading, error>>

\* mutant: the argument is merged into the default settings
MergeSettings_IntoDefault(old, settings) ==
    [ f \in DOMAIN old \cup DOMAIN settings |->
        IF f \in DOMAIN settings THEN settings[f] ELSE defaultGameSettings[f] ]

\* { ...state.gameSettings, ...settings }
MergeSettings(old, settings) ==
    [ f \in DOMAIN old \cup DOMAIN settings |->
        IF f \in DOMAIN settings THEN settings[f] ELSE old[f] ]

setGameSettings(settings) ==
    /\ gameSettings' = MergeSettings(gameSettings, settings)
    /\ UNCHANGED <<currentUser, isAuthenticated, currentRoom, availableRooms,
                   currentQuestion, playerAnswers, isLoading, error,
                   showResults>>

setError(e) ==
    /\ error' = e
    /\ UNCHANGED <<currentUser, isAuthenticated, currentRoom, availableRooms,
                   currentQuestion, playerAnswers, gameSettings, isLoading,
                   showResults>>

setLoading(loading) ==
    /\ isLoading' = loading
    /\ UNCHANGED <<currentUser, isAuthenticated, currentRoom, availableRooms,
                   currentQuestion, playerAnswers, gameSettings, error,
                   showResults>>

(***************************************************************************)
(* The calls explored: each store action with its arguments drawn from a    *)
(* set.                                                                     *)
(***************************************************************************)
SetUserIn(users) == \E user \in users : setUser(user)

CreateRoomIn(maxPlayersArgs, newIds) ==
    /\ Len(availableRooms) < MaxRooms
    /\ \E roomName \in RoomNames, maxPlayers \in maxPlayersArgs,
          isPrivate \in IsPrivateArgs, newId \in newIds :
         createRoom(roomName, maxPlayers, isPrivate, newId)

JoinRoomIn(roomIds) == \E roomId \in roomIds : joinRoom(roomId)

SubmitAnswerIn(answerIndexArgs, timeSpentArgs) ==
    \E answerIndex \in answerIndexArgs, timeSpent \in timeSpentArgs :
      submitAnswer(answerIndex, timeSpent)

SetGameSettingsIn(partials) ==
    \E settings \in partials : setGameSettings(settings)

SetErrorIn(errors) == \E e \in errors : setError(e)

SetLoadingIn(flags) == \E loading \in flags : setLoading(loading)

(***************************************************************************)
(* Spec: every store action, called in any order, in runs of at most        *)
(* MaxCalls calls.                                                          *)
(***************************************************************************)
Tick == calls < MaxCalls /\ calls' = calls + 1

SetUser == Tick /\ SetUserIn(Users)

Logout == Tick /\ logout

CreateRoom == Tick /\ CreateRoomIn(MaxPlayersArgs, RoomIds)

JoinRoom == Tick /\ JoinRoomIn(RoomIds)

LeaveRoom == Tick /\ leaveRoom

StartGame == Tick /\ startGame

SubmitAnswer == Tick /\ SubmitAnswerIn(AnswerIndexArgs, TimeSpentArgs)

NextQuestion == Tick /\ nextQuestion

EndGame == Tick /\ endGame

SetGameSettings == Tick /\ SetGameSettingsIn(PartialSettings)

SetError == Tick /\ SetErrorIn(ErrorArgs)

SetLoading == Tick /\ SetLoadingIn(LoadingArgs)

Next ==
    \/ SetUser
    \/ Logout
    \/ CreateRoom
    \/ JoinRoom
    \/ LeaveRoom
    \/ StartGame
    \/ SubmitAnswer
    \/ NextQuestion
    \/ EndGame
    \/ SetGameSettings
    \/ SetError
    \/ SetLoading

Spec == Init /\ [][Next]_vars

(***************************************************************************)
(* SpecScore: one game per room, submitAnswer called with every answer      *)
(* index in 0..MaxAnswerIndex and every time in 0..MaxTimeSpent, under both *)
(* values of timePerQuestion.  The runs are not bounded in length.          *)
(***************************************************************************)
Waiting == currentRoom # null /\ currentRoom.gameState = "waiting"

ScoreSetUser ==
    /\ currentUser = null
    /\ SetUserIn(Users)
    /\ UNCHANGED calls

ScoreCreateRoom ==
    /\ currentRoom = null
    /\ CreateRoomIn({ 2 }, { "r1" })
    /\ UNCHANGED calls

ScoreSetGameSettings ==
    /\ SetGameSettingsIn({ [ timePerQuestion |-> 30 ],
                            [ timePerQuestion |-> 60 ] })
    /\ UNCHANGED calls

ScoreStartGame == Waiting /\ startGame /\ UNCHANGED calls

ScoreSubmitAnswer ==
    /\ Len(playerAnswers) < MaxAnswers
    /\ SubmitAnswerIn(0..MaxAnswerIndex, 0..MaxTimeSpent)
    /\ UNCHANGED calls

NextScore ==
    \/ ScoreSetUser
    \/ ScoreCreateRoom
    \/ ScoreSetGameSettings
    \/ ScoreStartGame
    \/ ScoreSubmitAnswer

SpecScore == Init /\ [][NextScore]_vars

(***************************************************************************)
(* SpecAdvance: one game per room played to its end with the settings held  *)
(* fixed from startGame on: the settings change only while no game runs,    *)
(* nextQuestion is called only once the game has started, and the game ends *)
(* only through nextQuestion.  The runs are not bounded in length.          *)
(***************************************************************************)
QuestionsPerGameArgs == { 1, 2, 3, 10 }

AdvSetUser == SetUserIn(Users) /\ UNCHANGED calls

AdvCreateRoom ==
    /\ currentRoom = null
    /\ CreateRoomIn({ 2 }, { "r1" })
    /\ UNCHANGED calls

AdvSetGameSettings ==
    /\ currentRoom = null \/ Waiting
    /\ SetGameSettingsIn({ [ questionsPerGame |-> n ] : n \in QuestionsPerGameArgs }
                          \cup { [ difficulty |-> "easy",
                                   categories |-> << "energy" >> ] })
    /\ UNCHANGED calls

AdvStartGame == Waiting /\ startGame /\ UNCHANGED calls

AdvSubmitAnswer ==
    /\ Len(playerAnswers) < MaxAnswers
    /\ SubmitAnswerIn(AnswerIndexArgs, { 30 })
    /\ UNCHANGED calls

AdvNextQuestion == ~Waiting /\ nextQuestion /\ UNCHANGED calls

AdvLeaveRoom == leaveRoom /\ UNCHANGED calls

NextAdvance ==
    \/ AdvSetUser
    \/ AdvCreateRoom
    \/ AdvSetGameSettings
    \/ AdvStartGame
    \/ AdvSubmitAnswer
    \/ AdvNextQuestion
    \/ AdvLeaveRoom

SpecAdvance == Init /\ [][NextAdvance]_vars

(***************************************************************************)
(* The claims.                                                              *)
(***************************************************************************)
\* the first lobby entry with the given id is the one joinRoom finds
C_Found(roomId, i) ==
    /\ i \in 1..Len(availableRooms)
    /\ availableRooms[i].id = roomId
    /\ \A j \in 1..(i - 1) : availableRooms[j].id # roomId

C_Rank(gameState) ==
    CASE gameState = "waiting"  -> 0
      [] gameState = "playing"  -> 1
      [] gameState = "finished" -> 2

C1_NeverBackwards ==
    (currentRoom # null /\ currentRoom' # null /\ currentRoom'.id = currentRoom.id)
        => C_Rank(currentRoom'.gameState) >= C_Rank(currentRoom.gameState)

C1_FinishedIsTerminal ==
    (currentRoom # null /\ currentRoom.gameState = "finished"
        /\ (startGame \/ nextQuestion))
        => UNCHANGED store

\* C1: while the active room keeps its id, its gameState never moves
\* backwards along waiting -> playing -> finished, and once it is finished
\* startGame and nextQuestion leave the whole store unchanged.
C1_MonotonicLifecycle == [][C1_NeverBackwards /\ C1_FinishedIsTerminal]_vars

C2_FullRoomUnchanged(roomId) ==
    (\E i \in 1..Len(availableRooms) :
        /\ C_Found(roomId, i)
        /\ Len(availableRooms[i].players) >= availableRooms[i].maxPlayers)
        => UNCHANGED store

C2_WithinCapacity ==
    currentRoom' # currentRoom =>
        /\ Len(currentRoom'.players) <= currentRoom'.maxPlayers
        /\ Len(availableRooms') = Len(availableRooms)
        /\ \A i \in 1..Len(availableRooms) :
              availableRooms'[i] # availableRooms[i] =>
                Len(availableRooms'[i].players) <= availableRooms'[i].maxPlayers

\* C2: a joinRoom call that changes the store leaves the room it wrote (the
\* active room and every lobby entry it replaced) with at most maxPlayers
\* players, and a joinRoom call on a room that is already full leaves the
\* whole store unchanged.
C2_Capacity ==
    [][\A roomId \in RoomIds :
          joinRoom(roomId) => C2_FullRoomUnchanged(roomId) /\ C2_WithinCapacity]_vars

\* a room that a join has filled, with a user present and a call to come
C2_Witness ==
    /\ currentUser # null
    /\ calls < MaxCalls
    /\ \E i \in 1..Len(availableRooms) :
          /\ Len(availableRooms[i].players) = 2
          /\ availableRooms[i].maxPlayers = 2

\* the room is in the state that k advances after startGame leave it in
C3_Stage ==
    LET n == gameSettings.questionsPerGame
    IN  /\ currentRoom.gameState = "playing" =>
              currentRoom.questionIndex \in 0..(n - 1)
        /\ currentRoom.gameState = "finished" =>
              /\ currentRoom.questionIndex = n - 1
              /\ currentQuestion = null
              /\ showResults = TRUE

\* one nextQuestion call on a room that is playing
C3_Advance ==
    (currentRoom # null /\ currentRoom.gameState = "playing" /\ nextQuestion) =>
        LET n == gameSettings.questionsPerGame
            k == currentRoom.questionIndex
        IN  IF k + 1 <= n - 1
            THEN /\ currentRoom'.gameState = "playing"
                 /\ currentRoom'.questionIndex = k + 1
            ELSE /\ currentRoom'.gameState = "finished"
                 /\ currentRoom'.questionIndex = k
                 /\ currentQuestion' = null
                 /\ showResults' = TRUE

\* startGame on a waiting room leaves it playing at index 0
C3_Start ==
    (Waiting /\ startGame) =>
        currentRoom'.gameState = "playing" /\ currentRoom'.questionIndex = 0

\* C3: with questionsPerGame = N > 0 held fixed from startGame on, startGame
\* leaves the room playing at index 0, each of the first N-1 nextQuestion
\* calls adds one to the index and leaves the room playing, and the N-th
\* sets gameState to finished with the index still N-1, currentQuestion
\* cleared and showResults true.
C3_TerminalAdvance ==
    /\ [](currentRoom # null => C3_Stage)
    /\ [][C3_Start /\ C3_Advance]_vars

\* a game of ten questions finished at index 9
C3_Witness ==
    /\ currentRoom # null
    /\ gameSettings.questionsPerGame = 10
    /\ currentRoom.gameState = "finished"
    /\ currentRoom.questionIndex = 9

C4_NoUser ==
    currentUser = null =>
        /\ \A roomName \in RoomNames, maxPlayers \in MaxPlayersArgs,
              isPrivate \in IsPrivateArgs, newId \in RoomIds :
              createRoom(roomName, maxPlayers, isPrivate, newId) => UNCHANGED store
        /\ \A roomId \in RoomIds : joinRoom(roomId) => UNCHANGED store

C4_UnknownRoom ==
    \A roomId \in RoomIds :
        ((\A i \in 1..Len(availableRooms) : availableRooms[i].id # roomId)
            /\ joinRoom(roomId))
            => UNCHANGED store

C4_NoRoom ==
    (currentRoom = null /\ (startGame \/ nextQuestion \/ endGame))
        => UNCHANGED store

C4_NoAnswer ==
    (currentUser = null \/ currentQuestion \in { null, undefined }
        \/ currentRoom = null) =>
        \A answerIndex \in AnswerIndexArgs, timeSpent \in TimeSpentArgs :
            submitAnswer(answerIndex, timeSpent) => UNCHANGED store

\* the calls without their prerequisites complete: each has an outcome
C4_Completes ==
    /\ currentUser = null =>
          /\ \A roomName \in RoomNames, maxPlayers \in MaxPlayersArgs,
                isPrivate \in IsPrivateArgs, newId \in RoomIds :
                ENABLED createRoom(roomName, maxPlayers, isPrivate, newId)
          /\ \A roomId \in RoomIds : ENABLED joinRoom(roomId)
    /\ currentRoom = null =>
          ENABLED startGame /\ ENABLED nextQuestion /\ ENABLED endGame
    /\ (currentUser = null \/ currentQuestion \in { null, undefined }
          \/ currentRoom = null) =>
          \A answerIndex \in AnswerIndexArgs, timeSpent \in TimeSpentArgs :
              ENABLED submitAnswer(answerIndex, timeSpent)

\* C4: createRoom and joinRoom with no current user, joinRoom with an unknown
\* room id, startGame, nextQuestion and endGame with no active room, and
\* submitAnswer with no current user, no active question or no active room
\* each complete and leave every field of the store unchanged.
C4_SilentNoOp ==
    [][C4_Completes /\ C4_NoUser /\ C4_UnknownRoom /\ C4_NoRoom
         /\ C4_NoAnswer]_vars

\* no user and no active room over a lobby that holds a room, with a call
\* to come
C4_Witness ==
    /\ currentUser = null
    /\ currentRoom = null
    /\ availableRooms # <<>>
    /\ calls < MaxCalls

\* the points the claim states for an answer to a question
C5_Expected(question, answerIndex, timeSpent) ==
    IF answerIndex = question.correctAnswer
    THEN question.points + (IF timeSpent >= 30 THEN 0 ELSE 60 - 2 * timeSpent)
    ELSE 0

\* C5: the points submitAnswer records are question.points plus
\* max(0, (30 - timeSpent) * 2) for the correct answerIndex and 0 for any
\* other, for every timeSpent >= 0 and under either timePerQuestion: the
\* bonus is 0 from timeSpent = 30 on, and the points are never negative.
\* (In SpecScore an answer in the log is an answer to currentQuestion.)
C5_Scoring ==
    \A i \in 1..Len(playerAnswers) :
        LET answer == playerAnswers[i]
        IN  /\ answer.points =
                  C5_Expected(currentQuestion, answer.answerIndex, answer.timeSpent)
            /\ answer.isCorrect =
                  (answer.answerIndex = currentQuestion.correctAnswer)
            /\ answer.points >= 0
            /\ (answer.isCorrect /\ answer.timeSpent >= 30) =>
                  answer.points = currentQuestion.points

\* a correct answer given after more than 30 seconds of a 60 second question
C5_Witness ==
    /\ gameSettings.timePerQuestion = 60
    /\ \E i \in 1..Len(playerAnswers) :
          /\ playerAnswers[i].isCorrect
          /\ playerAnswers[i].timeSpent > 30
          /\ playerAnswers[i].points = currentQuestion.points

C6_Effect(answerIndex, timeSpent) ==
    LET id == currentUser.id
        prior == IF id \in DOMAIN currentRoom.scores
                 THEN currentRoom.scores[id] ELSE 0
        answer == playerAnswers'[Len(playerAnswers')]
    IN  /\ Len(playerAnswers') = Len(playerAnswers) + 1
        /\ SubSeq(playerAnswers', 1, Len(playerAnswers)) = playerAnswers
        /\ answer.playerId = id
        /\ answer.answerIndex = answerIndex
        /\ answer.timeSpent = timeSpent
        /\ DOMAIN currentRoom'.scores = DOMAIN currentRoom.scores \cup {id}
        /\ currentRoom'.scores[id] = prior + answer.points
        /\ \A other \in DOMAIN currentRoom.scores \ {id} :
              currentRoom'.scores[other] = currentRoom.scores[other]
        /\ showResults' = TRUE
        /\ currentRoom'.players = currentRoom.players
        /\ currentRoom'.gameState = currentRoom.gameState
        /\ currentRoom'.questionIndex = currentRoom.questionIndex
        /\ currentRoom'.id = currentRoom.id
        /\ UNCHANGED <<currentQuestion, availableRooms>>

\* C6: with a user, an active question and an active room, submitAnswer
\* appends one PlayerAnswer of the current user to playerAnswers, adds that
\* answer's points to the user's score in the active room (0 if absent
\* before), sets showResults, and leaves the other players' scores, the
\* room's players, gameState and questionIndex, currentQuestion and
\* availableRooms unchanged.
C6_RecordAnswer ==
    [][\A answerIndex \in AnswerIndexArgs, timeSpent \in TimeSpentArgs :
          (/\ currentUser # null
           /\ currentQuestion \notin { null, undefined }
           /\ currentRoom # null
           /\ submitAnswer(answerIndex, timeSpent))
              => C6_Effect(answerIndex, timeSpent)]_vars

\* a room of two players in which one has scored and the other has not
C6_Witness ==
    /\ currentRoom # null
    /\ playerAnswers # <<>>
    /\ showResults = TRUE
    /\ \E a, b \in DOMAIN currentRoom.scores :
          currentRoom.scores[a] > 0 /\ currentRoom.scores[b] = 0

C7_Cleared ==
    /\ currentRoom = null
    /\ currentQuestion = null
    /\ playerAnswers = <<>>
    /\ showResults = FALSE

\* C7: leaveRoom leaves currentRoom and currentQuestion absent,
\* playerAnswers empty and showResults false and changes nothing else, and
\* a leaveRoom call in the state a leaveRoom call leaves changes nothing.
C7_IdempotentLeave ==
    [][leaveRoom =>
          /\ C7_Cleared'
          /\ UNCHANGED <<currentUser, isAuthenticated, availableRooms,
                         gameSettings, isLoading, error>>
          /\ C7_Cleared => UNCHANGED store]_vars

\* a user who has left a room that stays in the lobby, with a call to come
C7_Witness ==
    /\ C7_Cleared
    /\ currentUser # null
    /\ availableRooms # <<>>
    /\ calls < MaxCalls

\* C8: setGameSettings sets the fields its argument names to the values it
\* gives them and leaves every other settings field and every other field
\* of the store unchanged.
C8_SettingsMerge ==
    [][\A settings \in PartialSettings :
          setGameSettings(settings) =>
              /\ DOMAIN gameSettings' = DOMAIN gameSettings
              /\ \A f \in DOMAIN settings : gameSettings'[f] = settings[f]
              /\ \A f \in DOMAIN gameSettings \ DOMAIN settings :
                    gameSettings'[f] = gameSettings[f]
              /\ UNCHANGED <<currentUser, isAuthenticated, currentRoom,
                             availableRooms, currentQuestion, playerAnswers,
                             isLoading, error, showResults>>]_vars

\* two fields set by two calls, each kept by the other, beside a room
C8_Witness ==
    /\ gameSettings.questionsPerGame = 2
    /\ gameSettings.timePerQuestion = 60
    /\ gameSettings.difficulty = "mixed"
    /\ gameSettings.categories = defaultCategories
    /\ currentRoom # null

C9_Effect(roomId, i) ==
    LET room == availableRooms[i]
    IN  /\ currentRoom'.players = Append(room.players, currentUser)
        /\ currentUser.id \in DOMAIN currentRoom'.scores
        /\ currentRoom'.scores[currentUser.id] = 0
        /\ currentRoom'.id = roomId
        /\ Len(availableRooms') = Len(availableRooms)
        /\ \A j \in 1..Len(availableRooms) :
              IF availableRooms[j].id = roomId
              THEN availableRooms'[j] = currentRoom'
              ELSE availableRooms'[j] = availableRooms[j]

\* C9: with a user present and the room of the given id in the lobby and
\* below capacity, joinRoom appends the user to that room's players, sets
\* the user's score in it to 0, and leaves the updated room as the active
\* room and as the lobby entry of that id, every other lobby entry unchanged.
C9_JoinSuccess ==
    [][\A roomId \in RoomIds :
          \A i \in 1..Len(availableRooms) :
              (/\ currentUser # null
               /\ C_Found(roomId, i)
               /\ Len(availableRooms[i].players) < availableRooms[i].maxPlayers
               /\ joinRoom(roomId))
                  => C9_Effect(roomId, i)]_vars

\* a joined room of two players beside a lobby entry of another id
C9_Witness ==
    /\ currentRoom # null
    /\ Len(currentRoom.players) = 2
    /\ \E i, j \in 1..Len(availableRooms) :
          /\ availableRooms[i] = currentRoom
          /\ availableRooms[j].id # currentRoom.id

C10_Effect(newId) ==
    /\ \A i \in 1..Len(availableRooms) : availableRooms[i].id # newId
    /\ currentRoom'.id = newId
    /\ currentRoom'.players = <<currentUser>>
    /\ currentRoom'.scores = (currentUser.id :> 0)
    /\ currentRoom'.gameState = "waiting"
    /\ currentRoom'.questionIndex = 0
    /\ currentRoom'.timeRemaining = 0
    /\ availableRooms' = Append(availableRooms, currentRoom')

\* C10: with a user present, createRoom makes a room with an identifier no
\* lobby entry has, players = [creator], scores = {creator: 0}, gameState
\* waiting, questionIndex 0 and timeRemaining 0, makes it the active room
\* and appends it to availableRooms, the earlier entries unchanged.
C10_CreateSuccess ==
    [][\A roomName \in RoomNames, maxPlayers \in MaxPlayersArgs,
          isPrivate \in IsPrivateArgs, newId \in RoomIds :
          (currentUser # null
             /\ createRoom(roomName, maxPlayers, isPrivate, newId))
              => C10_Effect(newId)]_vars

\* a catalogue question passes the filter of the settings
C11_Matches(q, settings) ==
    /\ settings.difficulty # "mixed" => q.difficulty = settings.difficulty
    /\ \E i \in 1..Len(settings.categories) : settings.categories[i] = q.category

C11_Effect ==
    /\ currentRoom'.gameState = "playing"
    /\ currentRoom'.questionIndex = 0
    /\ currentRoom'.timeRemaining = gameSettings.timePerQuestion
    /\ playerAnswers' = <<>>
    /\ IF \E i \in 1..Len(mockQuestions) : C11_Matches(mockQuestions[i], gameSettings)
       THEN \E i \in 1..Len(mockQuestions) :
               /\ currentQuestion' = mockQuestions[i]
               /\ C11_Matches(mockQuestions[i], gameSettings)
       ELSE currentQuestion' = null
    /\ currentRoom'.id = currentRoom.id
    /\ currentRoom'.players = currentRoom.players
    /\ currentRoom'.scores = currentRoom.scores

\* C11: with an active room, startGame sets its gameState to playing, its
\* questionIndex to 0 and its timeRemaining to timePerQuestion, empties
\* playerAnswers, and installs a catalogue question that passes the settings
\* filter (difficulty equal unless mixed, category enabled), or no question
\* when none passes; players and scores stay as they were.
C11_StartEffect == [][(currentRoom # null /\ startGame) => C11_Effect]_vars

\* a game just started on a room with two players, under a filter that only
\* the easy question passes
C11_Witness ==
    /\ currentRoom # null
    /\ currentRoom.gameState = "playing"
    /\ currentRoom.questionIndex = 0
    /\ currentRoom.timeRemaining = gameSettings.timePerQuestion
    /\ gameSettings.difficulty = "easy"
    /\ currentQuestion = mockQuestions[1]
    /\ playerAnswers = <<>>
    /\ Len(currentRoom.players) = 2

C12_SameRoom(lobbyRoom, activeRoom) ==
    /\ lobbyRoom.players = activeRoom.players
    /\ lobbyRoom.scores = activeRoom.scores
    /\ lobbyRoom.gameState = activeRoom.gameState
    /\ lobbyRoom.questionIndex = activeRoom.questionIndex
    /\ lobbyRoom.timeRemaining = activeRoom.timeRemaining

\* C12: whenever there is an active room, availableRooms holds an entry with
\* its id, and every such entry equals the active room in players, scores,
\* gameState, questionIndex and timeRemaining.
C12_DualCopy ==
    currentRoom # null =>
        /\ \E i \in 1..Len(availableRooms) : availableRooms[i].id = currentRoom.id
        /\ \A i \in 1..Len(availableRooms) :
              availableRooms[i].id = currentRoom.id
                  => C12_SameRoom(availableRooms[i], currentRoom)

C13_RoomOk(room) ==
    /\ Len(room.players) <= room.maxPlayers
    /\ room.questionIndex >= 0

\* C13: in every reachable state the active room and every lobby entry have
\* at most maxPlayers players and a questionIndex of at least 0, whatever
\* maxPlayers createRoom was given.
C13_RoomCapacity ==
    /\ currentRoom # null => C13_RoomOk(currentRoom)
    /\ \A i \in 1..Len(availableRooms) : C13_RoomOk(availableRooms[i])

\* the part of C13 that does hold: no questionIndex is negative
C13_IndexNotNegative ==
    /\ currentRoom # null => currentRoom.questionIndex >= 0
    /\ \A i \in 1..Len(availableRooms) : availableRooms[i].questionIndex >= 0

\* every room created with room for its creator respects its capacity
C13_CapacityFromOne ==
    /\ (currentRoom # null /\ currentRoom.maxPlayers >= 1)
          => Len(currentRoom.players) <= currentRoom.maxPlayers
    /\ \A i \in 1..Len(availableRooms) :
          availableRooms[i].maxPlayers >= 1
              => Len(availableRooms[i].players) <= availableRooms[i].maxPlayers

C14_UniquePlayers(room) ==
    \A i, j \in 1..Len(room.players) :
        room.players[i].id = room.players[j].id => i = j

\* C14: in every reachable state no room, active or in the lobby, lists the
\* same user id twice in its players, also after a user joins a room they
\* created or already joined.
C14_PlayerUniqueness ==
    /\ currentRoom # null => C14_UniquePlayers(currentRoom)
    /\ \A i \in 1..Len(availableRooms) : C14_UniquePlayers(availableRooms[i])

C15_OnlySetError == error' # error => \E e \in ErrorArgs : setError(e)

C15_OnlySetLoading ==
    isLoading' # isLoading => \E loading \in LoadingArgs : setLoading(loading)

C15_RoomActionsKeepError ==
    error' # error =>
        /\ \A roomName \in RoomNames, maxPlayers \in MaxPlayersArgs,
              isPrivate \in IsPrivateArgs, newId \in RoomIds :
              ~createRoom(roomName, maxPlayers, isPrivate, newId)
        /\ \A roomId \in RoomIds : ~joinRoom(roomId)
        /\ \A answerIndex \in AnswerIndexArgs, timeSpent \in TimeSpentArgs :
              ~submitAnswer(answerIndex, timeSpent)
        /\ ~(startGame \/ nextQuestion \/ endGame)

\* C15: only a setError step changes error and only a setLoading step changes
\* isLoading; no step that changes error is a createRoom, joinRoom,
\* startGame, submitAnswer, nextQuestion or endGame step, successful or not.
C15_ErrorChannel ==
    [][C15_OnlySetError /\ C15_OnlySetLoading /\ C15_RoomActionsKeepError]_vars

\* an error and the loading flag set from outside while a game is played
C15_Witness ==
    /\ error # null
    /\ isLoading
    /\ currentRoom # null
    /\ currentRoom.gameState = "playing"

\* no catalogue question passes the filter of the current settings
C16_NoMatch ==
    \A i \in 1..Len(mockQuestions) : ~C11_Matches(mockQuestions[i], gameSettings)

C16_Absent(question) == question = null \/ question = undefined

C16_Start ==
    (C16_NoMatch /\ currentRoom # null /\ startGame) =>
        /\ currentRoom'.gameState = "playing"
        /\ currentRoom'.questionIndex = 0
        /\ currentQuestion' = null
        /\ error' = error

C16_Advance ==
    (C16_NoMatch /\ currentRoom # null /\ currentRoom.gameState = "playing"
        /\ nextQuestion) =>
        /\ C16_Absent(currentQuestion')
        /\ error' = error
        /\ IF currentRoom.questionIndex + 1 < gameSettings.questionsPerGame
           THEN /\ currentRoom'.questionIndex = currentRoom.questionIndex + 1
                /\ currentRoom'.gameState = "playing"
           ELSE /\ currentRoom'.questionIndex = currentRoom.questionIndex
                /\ currentRoom'.gameState = "finished"

C16_Submit ==
    \A answerIndex \in AnswerIndexArgs, timeSpent \in TimeSpentArgs :
        (C16_Absent(currentQuestion) /\ submitAnswer(answerIndex, timeSpent))
            => UNCHANGED store

\* with an empty pool the calls still complete
C16_Completes ==
    (C16_NoMatch /\ currentRoom # null) =>
        /\ ENABLED startGame
        /\ ENABLED nextQuestion
        /\ \A answerIndex \in AnswerIndexArgs, timeSpent \in TimeSpentArgs :
              ENABLED submitAnswer(answerIndex, timeSpent)

\* a started game over an empty pool has no question and an index below
\* questionsPerGame
C16_Stage ==
    (C16_NoMatch /\ currentRoom # null /\ currentRoom.gameState # "waiting") =>
        /\ C16_Absent(currentQuestion)
        /\ currentRoom.questionIndex < gameSettings.questionsPerGame

\* C16: when no catalogue question passes the settings filter, startGame
\* still moves the active room to playing with no current question, each
\* nextQuestion completes and adds one to questionIndex with no current
\* question and no error, submitAnswer changes nothing, and the call that
\* would reach questionsPerGame finishes the room.
C16_EmptyPool ==
    /\ [](C16_Stage)
    /\ [][C16_Start /\ C16_Advance /\ C16_Submit /\ C16_Completes]_vars

\* a game of three questions over an empty pool, played to its end
C16_Witness ==
    /\ C16_NoMatch
    /\ currentRoom # null
    /\ currentRoom.gameState = "finished"
    /\ gameSettings.questionsPerGame = 3
    /\ currentRoom.questionIndex = 2
    /\ currentQuestion = null

\* C17: in every reachable state with no active room, currentQuestion is
\* absent, playerAnswers is empty and showResults is false.
C17_NoOrphans ==
    currentRoom = null =>
        /\ currentQuestion = null
        /\ playerAnswers = <<>>
        /\ showResults = FALSE

\* a user created a room and logged out of it: the lobby entry remains
C17_Witness ==
    /\ currentRoom = null
    /\ currentUser = null
    /\ Len(availableRooms) = 2

\* C18: across every step that leaves the active room with the same id, each
\* player's score in the active room is still there and is at least what it
\* was before the step.
C18_ScoresNeverDecrease ==
    [][(currentRoom # null /\ currentRoom' # null
          /\ currentRoom'.id = currentRoom.id) =>
         \A p \in DOMAIN currentRoom.scores :
            /\ p \in DOMAIN currentRoom'.scores
            /\ currentRoom'.scores[p] >= currentRoom.scores[p]]_vars

\* the part of C18 that does hold: no startGame, submitAnswer, nextQuestion
\* or endGame step lowers a score of the active room
C18_GameStepsKeepScores ==
    [][(currentRoom # null
          /\ (startGame \/ nextQuestion \/ endGame
                \/ \E answerIndex \in AnswerIndexArgs, timeSpent \in TimeSpentArgs :
                      submitAnswer(answerIndex, timeSpent))) =>
         \A p \in DOMAIN currentRoom.scores :
            /\ p \in DOMAIN currentRoom'.scores
            /\ currentRoom'.scores[p] >= currentRoom.scores[p]]_vars

C19_Frozen(room) ==
    /\ room.gameState = "waiting"
    /\ room.questionIndex = 0
    /\ room.timeRemaining = 0
    /\ \A p \in DOMAIN room.scores : room.scores[p] = 0

C19_AppendOnly ==
    /\ Len(availableRooms') >= Len(availableRooms)
    /\ \A i \in 1..Len(availableRooms) :
          availableRooms'[i].id = availableRooms[i].id

\* C19: no step removes a lobby entry or changes the order or the ids of the
\* entries already there, and every lobby entry always has gameState
\* waiting, questionIndex 0, timeRemaining 0 and all scores 0.
C19_LobbyFrozen ==
    /\ [](\A i \in 1..Len(availableRooms) : C19_Frozen(availableRooms[i]))
    /\ [][C19_AppendOnly]_vars

\* two lobby entries with different ids while the active room is past
\* waiting and holds points
C19_Witness ==
    /\ Len(availableRooms) = 2
    /\ availableRooms[1].id # availableRooms[2].id
    /\ currentRoom # null
    /\ currentRoom.gameState # "waiting"
    /\ \E p \in DOMAIN currentRoom.scores : currentRoom.scores[p] > 0

\* C20: in every reachable state with a current question, there is an active
\* room and its gameState is playing.
C20_QuestionOnlyWhilePlaying ==
    ~Falsy(currentQuestion) =>
        /\ currentRoom # null
        /\ currentRoom.gameState = "playing"

====
